---- MODULE Spec2Model ----
(***************************************************************************)
(* Control-message (cmsg) encoding and decoding of quinn-udp, and the      *)
(* receive poll loop of quinn's tokio runtime.                             *)
(*                                                                         *)
(* The control buffer is modelled byte by byte.  Pointers are byte offsets *)
(* from the (8-byte aligned) start of the buffer; NULL is the null pointer.*)
(* Two build targets are covered: "linux" (libc::msghdr only) and "apple"  *)
(* (libc::msghdr, and msghdr_x under cfg(apple_fast)).                     *)
(***************************************************************************)
EXTENDS Integers, Sequences, FiniteSets, TLC

\* ------------------------------------------------------------------ bounds
\* Largest number of push calls made on one Encoder.
MaxPush == 3
\* Largest number of entries a simulated receive call stores.
MaxRecv == 2
\* Largest number of next calls made after Iter first returned None.
MaxNoneCalls == 2
\* Payload sizes are drawn from this many values at each end of a 16-bit limb.
SizeSpan == 24

\* ------------------------------------------------------- inputs of the model
\* Sizes of the caller-allocated control buffer (the declared length B).
BufLens == {0, 20, 48}

\* (level, type) tags pushed or received; -1 exercises the c_int width.
Tags == {<<0, 8>>, <<41, -1>>}

\* (level, type, first payload byte) of the push calls.
PushArgs == {<<0, 8, 17>>, <<41, -1, 254>>}

\* Value types T: size_of and align_of.
u8         == [name |-> "u8",         size |-> 1,  align |-> 1]
c_int      == [name |-> "c_int",      size |-> 4,  align |-> 4]
u64        == [name |-> "u64",        size |-> 8,  align |-> 8]
in_pktinfo == [name |-> "in_pktinfo", size |-> 12, align |-> 4]
u128       == [name |-> "u128",       size |-> 16, align |-> 16]
ValueTypes == {u8, c_int, u64, in_pktinfo, u128}
RecvTypes  == {u8, c_int, in_pktinfo}

\* First bytes of the payload patterns.
PayloadSeeds == {17, 254}

\* The raw bytes of a value of type T: a ramp starting at seed (mod 256).
ValueBytes(T, seed) == [i \in 1..T.size |-> (seed + i - 1) % 256]
ValuesOf(T) == {ValueBytes(T, s) : s \in PayloadSeeds}

\* Prior contents of the control buffer: zeroed, or stale bytes that read
\* as a large length (256) at every 8-byte boundary.
PriorFills == {"zero", "stale"}
PriorByte(fill, i) == IF fill = "stale" /\ i % 8 = 1 THEN 1 ELSE 0

\* Declared lengths of a truncated entry left behind the received chain.
MalformedLens == {0, 4}

NULL == -1

VARIABLES
    target,     \* build target: "linux" | "apple"
    hdrType,    \* M: "msghdr" | "msghdr_x"
    hdr,        \* the message header: [msg_control, msg_controllen]
    mem,        \* the bytes of the control buffer, indexed from 0
    pc,         \* where the caller is
    enc,        \* Encoder: [cmsg, len]
    lastPush,   \* the last push call and its outcome
    pushed,     \* the pushes that returned, in order
    written,    \* the entries push wrote, in order
    commits,    \* number of set_control_len calls so far
    exitPath,   \* how the Encoder's scope ended
    it,         \* Iter: [cmsg, count]
    yielded,    \* the entries (offsets) Iter::next returned, in order
    lastNext,   \* what the last Iter::next call returned
    noneCalls,  \* next calls that returned None
    dec,        \* the decode call on the entry next returned last, if any
    calc,       \* a cmsg_len / cmsg_space evaluation: its input and results
    poll        \* UdpSocket::poll_recv: the position in its loop and its result

vars == <<target, hdrType, hdr, mem, pc, enc, lastPush, pushed, written,
          commits, exitPath, it, yielded, lastNext, noneCalls, dec, calc,
          poll>>

\* --------------------------------------------------------- native layout
\* size_of::<libc::cmsghdr>()
SizeOfCmsghdr == IF target = "linux" THEN 16 ELSE 12
\* align_of::<libc::cmsghdr>()
AlignOfCmsghdr == IF target = "linux" THEN 8 ELSE 4
\* width of the cmsg_len field (size_t on linux, socklen_t on apple)
LenWidth == IF target = "linux" THEN 8 ELSE 4
LevelOff == LenWidth
TypeOff  == LenWidth + 4

\* Byte k of the little-endian two's complement representation of v.
ByteOf(v, k) ==
    IF k >= 4 THEN (IF v < 0 THEN 255 ELSE 0)
    ELSE IF v >= 0 THEN (v \div (256 ^ k)) % 256
    ELSE 255 - (((-v - 1) \div (256 ^ k)) % 256)

\* Store the w-byte little-endian integer v at offset off.
WriteLE(m, off, w, v) ==
    [i \in DOMAIN m |-> IF off <= i /\ i < off + w THEN ByteOf(v, i - off) ELSE m[i]]

RECURSIVE SumLE(_, _, _)
SumLE(m, off, w) ==
    IF w = 0 THEN 0 ELSE m[off] + 256 * SumLE(m, off + 1, w - 1)

\* Load the w-byte little-endian unsigned integer at offset off.
ReadUnsigned(m, off, w) == SumLE(m, off, w)

RECURSIVE SumInv(_, _, _)
SumInv(m, off, w) ==
    IF w = 0 THEN 0 ELSE (255 - m[off]) + 256 * SumInv(m, off + 1, w - 1)

\* Load the 4-byte little-endian signed integer (c_int) at offset off.
ReadCInt(m, off) ==
    IF m[off + 3] >= 128 THEN -(1 + SumInv(m, off, 4)) ELSE SumLE(m, off, 4)

\* Store the raw bytes of a value at offset off (ptr::write).
WriteBytes(m, off, bytes) ==
    [i \in DOMAIN m |->
        IF off <= i /\ i < off + Len(bytes) THEN bytes[i - off + 1] ELSE m[i]]

\* Load n raw bytes at offset off (ptr::read).
ReadBytes(m, off, n) == [i \in 1..n |-> m[off + i - 1]]

\* libc::CMSG_ALIGN / __DARWIN_ALIGN32
CMSG_ALIGN(n) ==
    IF target = "linux" THEN ((n + 7) \div 8) * 8 ELSE ((n + 3) \div 4) * 4

\* libc::CMSG_LEN
CMSG_LEN(n) == CMSG_ALIGN(SizeOfCmsghdr) + n

\* libc::CMSG_SPACE
CMSG_SPACE(n) == CMSG_ALIGN(SizeOfCmsghdr) + CMSG_ALIGN(n)

\* libc::CMSG_DATA: the offset of the first payload byte of entry c
CMSG_DATA(c) == c + CMSG_ALIGN(SizeOfCmsghdr)

\* libc::CMSG_FIRSTHDR
CMSG_FIRSTHDR(h) ==
    IF h.msg_controllen >= SizeOfCmsghdr THEN h.msg_control ELSE NULL

\* libc::CMSG_NXTHDR
CMSG_NXTHDR(h, m, c) ==
    LET curLen == ReadUnsigned(m, c, LenWidth)
        next   == c + CMSG_ALIGN(curLen)
        max    == h.msg_control + h.msg_controllen
    IN  IF target = "linux"
        THEN IF curLen < SizeOfCmsghdr THEN NULL
             ELSE IF next + SizeOfCmsghdr > max THEN NULL
             ELSE IF next + CMSG_ALIGN(ReadUnsigned(m, next, LenWidth)) > max THEN NULL
             ELSE next
        ELSE IF next + CMSG_ALIGN(SizeOfCmsghdr) > max THEN NULL ELSE next

\* ------------------------------------------------------ trait CMsgHdr
cmsg_len(length) == CMSG_LEN(length)
cmsg_space(length) == CMSG_SPACE(length)
cmsg_data(c) == CMSG_DATA(c)
\* CMsgHdr::len: the declared length of entry c
len(m, c) == ReadUnsigned(m, c, LenWidth)
\* the level and type tags of entry c
cmsg_level(m, c) == ReadCInt(m, c + LevelOff)
cmsg_type(m, c) == ReadCInt(m, c + TypeOff)
\* CMsgHdr::set
set(m, c, level, ty, length) ==
    WriteLE(WriteLE(WriteLE(m, c + LevelOff, 4, level), c + TypeOff, 4, ty),
            c, LenWidth, length)

\* ------------------------------------------------------ trait MsgHdr
\* msghdr_x read through a pointer cast to libc::msghdr: the libc primitives
\* see the header's control pointer and control length.
AsMsghdr(h) == [msg_control |-> h.msg_control, msg_controllen |-> h.msg_controllen]

\* <libc::msghdr as MsgHdr>::cmsg_first_hdr
msghdr_cmsg_first_hdr(h) == CMSG_FIRSTHDR(h)

\* <msghdr_x as MsgHdr>::cmsg_first_hdr
msghdr_x_cmsg_first_hdr(h) == CMSG_FIRSTHDR(AsMsghdr(h))

cmsg_first_hdr(h) ==
    IF hdrType = "msghdr_x" THEN msghdr_x_cmsg_first_hdr(h)
    ELSE msghdr_cmsg_first_hdr(h)

\* Is the defensive length check compiled into libc::msghdr's cmsg_nxt_hdr?
HasLenCheck == target = "apple"

\* Variant: libc::msghdr's lookup result is returned as is on every target.
msghdr_cmsg_nxt_hdr_Unchecked(h, m, c) == CMSG_NXTHDR(h, m, c)

\* <libc::msghdr as MsgHdr>::cmsg_nxt_hdr
msghdr_cmsg_nxt_hdr(h, m, c) ==
    LET next == CMSG_NXTHDR(h, m, c)
    IN  IF HasLenCheck /\ next # NULL /\ len(m, next) < SizeOfCmsghdr
        THEN NULL
        ELSE next

\* Variant: the fast-path header returns the lookup's result as is.
msghdr_x_cmsg_nxt_hdr_Unchecked(h, m, c) == CMSG_NXTHDR(AsMsghdr(h), m, c)

\* <msghdr_x as MsgHdr>::cmsg_nxt_hdr
msghdr_x_cmsg_nxt_hdr(h, m, c) ==
    LET next == CMSG_NXTHDR(AsMsghdr(h), m, c)
    IN  IF next # NULL /\ len(m, next) < SizeOfCmsghdr
        THEN NULL
        ELSE next

\* Variant: the defensive check catches a zero length only.
cmsg_nxt_hdr_ZeroOnly(h, m, c) ==
    LET next == CMSG_NXTHDR(h, m, c)
    IN  IF HasLenCheck /\ next # NULL /\ len(m, next) = 0
        THEN NULL
        ELSE next

cmsg_nxt_hdr(h, m, c) ==
    IF hdrType = "msghdr_x" THEN msghdr_x_cmsg_nxt_hdr(h, m, c)
    ELSE msghdr_cmsg_nxt_hdr(h, m, c)

\* Variant: the control pointer is never nulled.
set_control_len_KeepsPointer(h, n) == [h EXCEPT !.msg_controllen = n]

\* Variant: libc::msghdr's control pointer is nulled for every length.
set_control_len_NullsAlways(h, n) ==
    IF hdrType = "msghdr"
    THEN [msg_controllen |-> n, msg_control |-> NULL]
    ELSE [h EXCEPT !.msg_controllen = n]

set_control_len(h, n) ==
    IF hdrType = "msghdr"
    THEN [msg_controllen |-> n,
          msg_control |-> IF n = 0 THEN NULL ELSE h.msg_control]
    ELSE [h EXCEPT !.msg_controllen = n]

control_len(h) == h.msg_controllen

\* ------------------------------------------- sizes in their native width
\* A usize or c_uint value is kept as hi * Limb + lo with 0 <= lo < Limb, so
\* that values around 2^32 can be told apart.
Limb == 256 * 256

WNorm(hi, lo) == [hi |-> hi + (lo \div Limb), lo |-> lo % Limb]
WAddInt(w, k) == WNorm(w.hi, w.lo + k)
WLeq(a, b) == a.hi < b.hi \/ (a.hi = b.hi /\ a.lo <= b.lo)

\* (w + a - 1) & !(a - 1) for a power of two a that divides Limb
WAlign(w, a) ==
    LET sum == WAddInt(w, a - 1)
    IN  [hi |-> sum.hi, lo |-> (sum.lo \div a) * a]

\* `as c_uint` (and `length as _` into a c_uint parameter): the low 32 bits
AsCUint(w) == [hi |-> w.hi % Limb, lo |-> w.lo]
FitsCUint(w) == w.hi < Limb

\* The unit CMSG_ALIGN rounds to: size_of::<usize>() on linux, 4 on apple.
AlignUnit == IF target = "linux" THEN 8 ELSE 4

\* cmsg_len(length) in its native width: libc::CMSG_LEN(length as _) as usize.
\* On linux the sum is a c_uint addition, which panics on overflow when
\* overflow checks are compiled in (oc) and wraps otherwise; on apple the
\* sum is taken in usize and then cast.
cmsg_len_wide(n, oc) ==
    LET sum == WAddInt(AsCUint(n), CMSG_ALIGN(SizeOfCmsghdr))
    IN  IF target = "linux" /\ oc /\ ~FitsCUint(sum)
        THEN [panic |-> TRUE, val |-> [hi |-> 0, lo |-> 0]]
        ELSE [panic |-> FALSE, val |-> AsCUint(sum)]

\* Variant: the payload is not padded.
cmsg_space_wide_Unpadded(n, oc) ==
    [panic |-> FALSE,
     val |-> AsCUint(WAddInt(AsCUint(n), CMSG_ALIGN(SizeOfCmsghdr)))]

\* cmsg_space(length) in its native width: libc::CMSG_SPACE(length as _) as
\* usize; the sum is taken in usize and then cast to c_uint.
cmsg_space_wide(n, oc) ==
    [panic |-> FALSE,
     val |-> AsCUint(WAddInt(WAlign(AsCUint(n), AlignUnit),
                             CMSG_ALIGN(SizeOfCmsghdr)))]

\* ------------------------------------------------------------------ Init
NoCalc == [done |-> FALSE, n |-> [hi |-> 0, lo |-> 0], oc |-> FALSE,
           len |-> [panic |-> FALSE, val |-> [hi |-> 0, lo |-> 0]],
           space |-> [panic |-> FALSE, val |-> [hi |-> 0, lo |-> 0]]]
NoPoll == [pc |-> "none"]
NoPush == [outcome |-> "none", level |-> 0, ty |-> 0, T |-> u8, value |-> <<>>]
NoDec  == [outcome |-> "none", cmsg |-> NULL, T |-> u8, debug |-> FALSE, value |-> <<>>]

Init ==
    /\ target \in {"linux", "apple"}
    /\ hdrType \in (IF target = "apple" THEN {"msghdr", "msghdr_x"} ELSE {"msghdr"})
    /\ \E B \in BufLens, fill \in PriorFills :
          /\ hdr = [msg_control |-> 0, msg_controllen |-> B]
          /\ mem = [i \in 0..(B - 1) |-> PriorByte(fill, i)]
    /\ pc = "idle"
    /\ enc = [cmsg |-> NULL, len |-> 0]
    /\ lastPush = NoPush
    /\ pushed = <<>>
    /\ written = <<>>
    /\ commits = 0
    /\ exitPath = "none"
    /\ it = [cmsg |-> NULL, count |-> 0]
    /\ yielded = <<>>
    /\ lastNext = "none"
    /\ noneCalls = 0
    /\ dec = NoDec
    /\ calc = NoCalc
    /\ poll = NoPoll

\* The size of the caller's allocation.
Cap == Cardinality(DOMAIN mem)

\* --------------------------------------------------------------- Encoder
EncoderNew ==
    /\ pc = "idle"
    /\ enc' = [cmsg |-> cmsg_first_hdr(hdr), len |-> 0]
    /\ pc' = "encoding"
    /\ UNCHANGED <<calc, poll, target, hdrType, hdr, mem, lastPush, pushed, written,
                   commits, exitPath, it, yielded, lastNext, noneCalls, dec>>

\* Variant: the alignment assertion is missing.
AlignOk_Unchecked(T) == TRUE

\* assert!(align_of::<T>() <= align_of::<M::ControlMessage>())
AlignOk(T) == T.align <= AlignOfCmsghdr

\* Variant: the space assertion ignores the running total.
SpaceOk_IgnoresTotal(h, e, space) == control_len(h) >= space

\* assert!(self.hdr.control_len() >= self.len + space)
SpaceOk(h, e, space) == control_len(h) >= e.len + space

\* Variant: the space assertion uses the unpadded length of the entry.
PushOutcome_UnpaddedCheck(h, e, T) ==
    IF ~AlignOk(T) THEN "align_panic"
    ELSE IF ~(control_len(h) >= e.len + cmsg_len(T.size)) THEN "space_panic"
    ELSE IF e.cmsg = NULL THEN "dropped"
    ELSE "ok"

\* Which way a push call goes.
PushOutcome(h, e, T) ==
    IF ~AlignOk(T) THEN "align_panic"
    ELSE IF ~SpaceOk(h, e, cmsg_space(T.size)) THEN "space_panic"
    ELSE IF e.cmsg = NULL THEN "dropped"
    ELSE "ok"

\* cmsg.set(level, ty, cmsg_len(size)) followed by ptr::write(cmsg_data, value)
PutCmsg(m, c, level, ty, T, value) ==
    WriteBytes(set(m, c, level, ty, cmsg_len(T.size)), cmsg_data(c), value)

\* The control buffer after a push call.
PushMem(m, e, outcome, level, ty, T, value) ==
    IF outcome = "ok" THEN PutCmsg(m, e.cmsg, level, ty, T, value) ELSE m

\* Variant: the running total advances by the unpadded length of the entry.
PushEnc_UnpaddedTotal(h, m2, e, outcome, T) ==
    IF outcome = "ok"
    THEN [len |-> e.len + cmsg_len(T.size), cmsg |-> cmsg_nxt_hdr(h, m2, e.cmsg)]
    ELSE e

\* Variant: the running total advances before the cursor is looked at.
PushEnc_CountsDropped(h, m2, e, outcome, T) ==
    IF outcome = "ok"
    THEN [len |-> e.len + cmsg_space(T.size), cmsg |-> cmsg_nxt_hdr(h, m2, e.cmsg)]
    ELSE IF outcome = "dropped"
    THEN [e EXCEPT !.len = e.len + cmsg_space(T.size)]
    ELSE e

\* Variant: the cursor is advanced before the entry is written.
PushEnc_StaleCursor(h, m2, e, outcome, T) ==
    IF outcome = "ok"
    THEN [len |-> e.len + cmsg_space(T.size), cmsg |-> cmsg_nxt_hdr(h, mem, e.cmsg)]
    ELSE e

\* The Encoder's fields after a push call; m2 is the buffer after the call.
PushEnc(h, m2, e, outcome, T) ==
    IF outcome = "ok"
    THEN [len |-> e.len + cmsg_space(T.size), cmsg |-> cmsg_nxt_hdr(h, m2, e.cmsg)]
    ELSE e

Push(level, ty, T, value) ==
    /\ pc = "encoding"
    /\ Len(pushed) < MaxPush
    /\ LET outcome == PushOutcome(hdr, enc, T)
           call    == [outcome |-> outcome, level |-> level, ty |-> ty,
                       T |-> T, value |-> value]
           m2      == PushMem(mem, enc, outcome, level, ty, T, value)
       IN  /\ lastPush' = call
           /\ mem' = m2
           /\ enc' = PushEnc(hdr, m2, enc, outcome, T)
           /\ pc' = IF outcome \in {"align_panic", "space_panic"}
                    THEN "unwinding" ELSE "encoding"
           /\ pushed' = IF outcome \in {"ok", "dropped"}
                        THEN Append(pushed, call) ELSE pushed
           /\ written' = IF outcome = "ok"
                         THEN Append(written, [cmsg |-> enc.cmsg, level |-> level,
                                               ty |-> ty, T |-> T, value |-> value])
                         ELSE written
    /\ UNCHANGED <<calc, poll, target, hdrType, hdr, commits, exitPath, it, yielded,
                   lastNext, noneCalls, dec>>

\* Drop for Encoder: self.hdr.set_control_len(self.len)
Commit(path) ==
    /\ hdr' = set_control_len(hdr, enc.len)
    /\ commits' = commits + 1
    /\ exitPath' = path
    /\ pc' = "committed"
    /\ UNCHANGED <<calc, poll, target, hdrType, mem, enc, lastPush, pushed, written, it,
                   yielded, lastNext, noneCalls, dec>>

\* Variant: finish commits by itself and the drop that follows commits again.
EncoderFinish_CommitsTwice ==
    /\ pc = "encoding"
    /\ hdr' = set_control_len(set_control_len(hdr, enc.len), enc.len)
    /\ commits' = commits + 2
    /\ exitPath' = "finish"
    /\ pc' = "committed"
    /\ UNCHANGED <<calc, poll, target, hdrType, mem, enc, lastPush, pushed, written, it,
                   yielded, lastNext, noneCalls, dec>>

\* Encoder::finish: consumes the Encoder, which drops it
EncoderFinish ==
    /\ pc = "encoding"
    /\ Commit("finish")

\* Variant: the length is committed on the normal path only.
EncoderDrop_NoCommitOnUnwind ==
    /\ pc \in {"encoding", "unwinding"}
    /\ IF pc = "unwinding"
       THEN /\ exitPath' = "unwind"
            /\ pc' = "committed"
            /\ UNCHANGED <<calc, poll, target, hdrType, hdr, mem, enc, lastPush, pushed,
                           written, commits, it, yielded, lastNext, noneCalls, dec>>
       ELSE Commit("drop")

\* The Encoder goes out of scope, normally or while a failed push unwinds.
EncoderDrop ==
    /\ pc \in {"encoding", "unwinding"}
    /\ Commit(IF pc = "unwinding" THEN "unwind" ELSE "drop")

\* ------------------------------------------------- a receive call's result
RecvEntries ==
    {[level |-> tg[1], ty |-> tg[2], T |-> T, value |-> ValueBytes(T, s)] :
        tg \in Tags, T \in RecvTypes, s \in {17}}

SeqsUpTo(S, n) == UNION {[1..k -> S] : k \in 0..n}

RECURSIVE ChainSpace(_)
\* The bytes a chain of entries occupies.
ChainSpace(es) ==
    IF es = <<>> THEN 0
    ELSE cmsg_space(Head(es).T.size) + ChainSpace(Tail(es))

RECURSIVE StoreChain(_, _, _)
\* The buffer after the entries es have been stored from offset c on.
StoreChain(m, c, es) ==
    IF es = <<>> THEN m
    ELSE StoreChain(PutCmsg(m, c, Head(es).level, Head(es).ty, Head(es).T,
                            Head(es).value),
                    c + cmsg_space(Head(es).T.size), Tail(es))

\* The operating system fills the control buffer with a chain of entries and
\* sets the control length.  With tail # "none" it reports one header more
\* than it stored; the bytes there are what the buffer held before
\* (tail = "keep") or a header with the too small declared length short
\* (tail = "short").
Recv(es, tail, short) ==
    /\ pc = "idle"
    /\ LET total == ChainSpace(es)
           m2    == StoreChain(mem, 0, es)
       IN  /\ total <= Cap
           /\ IF tail = "none"
              THEN /\ mem' = m2
                   /\ hdr' = [hdr EXCEPT !.msg_controllen = total]
              ELSE /\ total + SizeOfCmsghdr <= Cap
                   /\ mem' = IF tail = "keep" THEN m2
                             ELSE WriteLE(m2, total, LenWidth, short)
                   /\ hdr' = [hdr EXCEPT !.msg_controllen = total + SizeOfCmsghdr]
    /\ pc' = "received"
    /\ UNCHANGED <<calc, poll, target, hdrType, enc, lastPush, pushed, written, commits,
                   exitPath, it, yielded, lastNext, noneCalls, dec>>

\* ------------------------------------------------------------------ Iter
IterNew ==
    /\ pc \in {"committed", "received"}
    /\ it' = [cmsg |-> cmsg_first_hdr(hdr), count |-> 0]
    /\ pc' = "iterating"
    /\ UNCHANGED <<calc, poll, target, hdrType, hdr, mem, enc, lastPush, pushed, written,
                   commits, exitPath, yielded, lastNext, noneCalls, dec>>

\* Variant: an exhausted Iter goes back to the first entry.
IterAdvance_Restarts(h, m, i) ==
    IF i.cmsg = NULL THEN [cmsg |-> cmsg_first_hdr(h), count |-> i.count]
    ELSE [cmsg |-> cmsg_nxt_hdr(h, m, i.cmsg), count |-> i.count + 1]

\* The Iter's fields after a next call.
IterAdvance(h, m, i) ==
    IF i.cmsg = NULL THEN i
    ELSE [cmsg |-> cmsg_nxt_hdr(h, m, i.cmsg), count |-> i.count + 1]

IterNext ==
    /\ pc = "iterating"
    /\ IF it.cmsg = NULL
       THEN /\ noneCalls < MaxNoneCalls
            /\ noneCalls' = noneCalls + 1
            /\ lastNext' = "None"
            /\ UNCHANGED yielded
       ELSE /\ Len(yielded) <= Cap
            /\ yielded' = Append(yielded, it.cmsg)
            /\ lastNext' = "Some"
            /\ UNCHANGED noneCalls
    /\ it' = IterAdvance(hdr, mem, it)
    /\ dec' = NoDec
    /\ UNCHANGED <<calc, poll, target, hdrType, hdr, mem, pc, enc, lastPush, pushed,
                   written, commits, exitPath>>

\* ---------------------------------------------------------------- decode
\* Which way decode::<T, C>(cmsg) goes; debug: debug assertions compiled in.
DecodeOutcome(m, c, T, debug) ==
    IF ~AlignOk(T) THEN "align_panic"
    ELSE IF debug /\ len(m, c) # cmsg_len(T.size) THEN "len_panic"
    ELSE IF cmsg_data(c) + T.size > Cardinality(DOMAIN m) THEN "undefined"
    ELSE "ok"

\* decode of the entry the last next call returned
Decode(T, debug) ==
    /\ pc = "iterating"
    /\ lastNext = "Some"
    /\ LET c       == yielded[Len(yielded)]
           outcome == DecodeOutcome(mem, c, T, debug)
       IN  \E undef \in ValuesOf(T) :
              dec' = [outcome |-> outcome, cmsg |-> c, T |-> T, debug |-> debug,
                      value |-> IF outcome = "ok"
                                THEN ReadBytes(mem, cmsg_data(c), T.size)
                                ELSE IF outcome = "undefined" THEN undef
                                ELSE <<>>]
    /\ UNCHANGED <<calc, poll, target, hdrType, hdr, mem, pc, enc, lastPush, pushed,
                   written, commits, exitPath, it, yielded, lastNext, noneCalls>>

\* ------------------------------------------------------------------ Next
Next ==
    \/ EncoderNew
    \/ \E a \in PushArgs, T \in ValueTypes :
          Push(a[1], a[2], T, ValueBytes(T, a[3]))
    \/ EncoderFinish
    \/ EncoderDrop
    \/ \E es \in SeqsUpTo(RecvEntries, MaxRecv),
          tail \in {"none", "keep", "short"}, short \in MalformedLens :
          Recv(es, tail, short)
    \/ IterNew
    \/ IterNext
    \/ \E T \in ValueTypes, debug \in BOOLEAN : Decode(T, debug)

Spec == Init /\ [][Next]_vars

\* ------------------------------------------- cmsg_len and cmsg_space alone
\* The Encoder, Iter and decode variables when no control buffer is in use.
NoCmsg ==
    /\ hdrType = "msghdr"
    /\ hdr = [msg_control |-> NULL, msg_controllen |-> 0]
    /\ mem = [i \in 0..(-1) |-> 0]
    /\ pc = "unused"
    /\ enc = [cmsg |-> NULL, len |-> 0]
    /\ lastPush = NoPush
    /\ pushed = <<>>
    /\ written = <<>>
    /\ commits = 0
    /\ exitPath = "none"
    /\ it = [cmsg |-> NULL, count |-> 0]
    /\ yielded = <<>>
    /\ lastNext = "none"
    /\ noneCalls = 0
    /\ dec = NoDec

cmsgVars == <<target, hdrType, hdr, mem, pc, enc, lastPush, pushed, written,
              commits, exitPath, it, yielded, lastNext, noneCalls, dec>>

\* Payload sizes: small ones, and ones around 2^32 - 1 and 2^32.
SizeLos == (0..SizeSpan) \cup ((Limb - SizeSpan)..(Limb - 1))
SizeHis == {0, Limb - 1, Limb}

InitSizes ==
    /\ target \in {"linux", "apple"}
    /\ NoCmsg
    /\ poll = NoPoll
    /\ \E h \in SizeHis, l \in SizeLos, oc \in BOOLEAN :
          calc = [NoCalc EXCEPT !.n = [hi |-> h, lo |-> l], !.oc = oc]

\* One evaluation of cmsg_len(n) and cmsg_space(n).
CmsgSizes ==
    /\ ~calc.done
    /\ calc' = [calc EXCEPT !.done = TRUE,
                            !.len = cmsg_len_wide(calc.n, calc.oc),
                            !.space = cmsg_space_wide(calc.n, calc.oc)]
    /\ UNCHANGED <<cmsgVars, poll>>

NextSizes == CmsgSizes

SpecSizes == InitSizes /\ [][NextSizes]_vars

\* ============================================== UdpSocket::poll_recv
\* poll is the state one tokio UdpSocket and the poll_recv call on it are in:
\*   pc         where the call is: idle, confirm (top of the loop), try_io
\*              (readiness confirmed), returned
\*   readiness  tokio's cached READABLE readiness of the socket
\*   driverUp   is the runtime's I/O driver still running
\*   sock       what the kernel would answer the next recv with
\*   budget     the cooperative budget left for the polling task
\*   confirms   poll_recv_ready calls that returned Ready(Ok), modulo CountMod
\*   attempts   inner.recv calls, modulo CountMod
\*   lastReady  what the last poll_recv_ready of this call returned
\*   lastIo     what the last try_io of this call returned
\*   ret        what the call returned
MaxBatch == 2
MaxBudget == 2
CountMod == 4
Unconstrained == -1

SockStates == {"data", "empty", "NotConnected", "ConnectionReset"}
Budgets == {Unconstrained} \cup (0..MaxBudget)

NoIo == [kind |-> "none", n |-> 0]
NoRet == [kind |-> "none", n |-> 0, err |-> "none"]

InitPoll ==
    /\ target = "linux"
    /\ NoCmsg
    /\ calc = NoCalc
    /\ \E s \in SockStates, r \in BOOLEAN :
          poll = [pc |-> "idle", readiness |-> r, driverUp |-> TRUE, sock |-> s,
                  budget |-> Unconstrained, confirms |-> 0, attempts |-> 0,
                  lastReady |-> "none", lastIo |-> NoIo, ret |-> NoRet]

\* The caller polls the socket for datagrams.
PollRecvCall ==
    /\ poll.pc \in {"idle", "returned"}
    /\ \E b \in Budgets :
          poll' = [poll EXCEPT !.pc = "confirm", !.budget = b,
                               !.lastReady = "none", !.lastIo = NoIo,
                               !.ret = NoRet]
    /\ UNCHANGED <<calc, cmsgVars>>

\* tokio's poll_recv_ready: Pending when the task's budget is used up or the
\* socket is not known to be readable, an error when the driver is gone.
poll_recv_ready(p) ==
    IF p.budget = 0 THEN "Pending"
    ELSE IF ~p.driverUp THEN "Err"
    ELSE IF p.readiness THEN "Ready"
    ELSE "Pending"

\* Variant: the loop goes on to try_io whatever the readiness poll returned.
AfterReady_IgnoresPending(p, r) ==
    IF r = "Err"
    THEN [p EXCEPT !.pc = "returned", !.lastReady = r,
                   !.ret = [kind |-> "ReadyErr", n |-> 0, err |-> "driver"]]
    ELSE [p EXCEPT !.pc = "try_io", !.lastReady = r,
                   !.confirms = IF r = "Ready" THEN (@ + 1) % CountMod ELSE @,
                   !.budget = IF @ > 0 /\ r = "Ready" THEN @ - 1 ELSE @]

\* ready!(self.io.poll_recv_ready(cx))?
AfterReady(p, r) ==
    IF r = "Pending"
    THEN [p EXCEPT !.pc = "returned", !.lastReady = r,
                   !.ret = [kind |-> "Pending", n |-> 0, err |-> "none"]]
    ELSE IF r = "Err"
    THEN [p EXCEPT !.pc = "returned", !.lastReady = r,
                   !.ret = [kind |-> "ReadyErr", n |-> 0, err |-> "driver"]]
    ELSE [p EXCEPT !.pc = "try_io", !.lastReady = r,
                   !.confirms = (@ + 1) % CountMod,
                   !.budget = IF @ > 0 THEN @ - 1 ELSE @]

PollRecvReady ==
    /\ poll.pc = "confirm"
    /\ poll' = AfterReady(poll, poll_recv_ready(poll))
    /\ UNCHANGED <<calc, cmsgVars>>

\* self.inner.recv(..): n datagrams, or the error the socket holds.
recv(p, n) ==
    IF p.sock = "data" THEN [kind |-> "Ok", n |-> n]
    ELSE IF p.sock = "empty" THEN [kind |-> "WouldBlock", n |-> 0]
    ELSE [kind |-> p.sock, n |-> 0]

\* tokio's try_io: without cached readiness the closure is not called and
\* the result is WouldBlock; a WouldBlock from the closure clears the
\* readiness.
try_io(p, n) ==
    IF ~p.readiness
    THEN [called |-> FALSE, res |-> [kind |-> "WouldBlock", n |-> 0],
          readiness |-> FALSE]
    ELSE [called |-> TRUE, res |-> recv(p, n),
          readiness |-> recv(p, n).kind # "WouldBlock"]

\* Variant: every error leads to another round, NotConnected too.
PollMatch_RetriesNotConnected(p, res) ==
    IF res.kind = "Ok"
    THEN [p EXCEPT !.pc = "returned",
                   !.ret = [kind |-> "ReadyOk", n |-> res.n, err |-> "none"]]
    ELSE [p EXCEPT !.pc = "confirm"]

\* The match on try_io's result.
PollMatch(p, res) ==
    IF res.kind = "Ok"
    THEN [p EXCEPT !.pc = "returned",
                   !.ret = [kind |-> "ReadyOk", n |-> res.n, err |-> "none"]]
    ELSE IF res.kind = "NotConnected"
    THEN [p EXCEPT !.pc = "returned",
                   !.ret = [kind |-> "ReadyErr", n |-> 0, err |-> res.kind]]
    ELSE [p EXCEPT !.pc = "confirm"]

\* One try_io; after is what the socket holds once recv has taken its
\* datagrams or its error.
TryIo ==
    /\ poll.pc = "try_io"
    /\ \E n \in 1..MaxBatch, after \in SockStates :
          LET io == try_io(poll, n)
              consumed == io.called /\ io.res.kind # "WouldBlock"
          IN  /\ (~consumed) => after = poll.sock
              /\ (poll.sock # "data") => n = 1
              /\ poll' = PollMatch([poll EXCEPT
                                       !.readiness = io.readiness,
                                       !.attempts = IF io.called
                                                    THEN (@ + 1) % CountMod ELSE @,
                                       !.lastIo = io.res,
                                       !.sock = after],
                                   io.res)
    /\ UNCHANGED <<calc, cmsgVars>>

\* The kernel's side: a datagram or an error arrives, or the queue drains.
SockChange ==
    /\ \E s \in SockStates \ {poll.sock} : poll' = [poll EXCEPT !.sock = s]
    /\ UNCHANGED <<calc, cmsgVars>>

\* The I/O driver reports the socket readable.
ReactorEvent ==
    /\ poll.sock # "empty"
    /\ ~poll.readiness
    /\ poll' = [poll EXCEPT !.readiness = TRUE]
    /\ UNCHANGED <<calc, cmsgVars>>

\* The runtime shuts its I/O driver down.
DriverShutdown ==
    /\ poll.driverUp
    /\ poll' = [poll EXCEPT !.driverUp = FALSE]
    /\ UNCHANGED <<calc, cmsgVars>>

NextPoll ==
    \/ PollRecvCall
    \/ PollRecvReady
    \/ TryIo
    \/ SockChange
    \/ ReactorEvent
    \/ DriverShutdown

SpecPoll == InitPoll /\ [][NextPoll]_vars

\* The thread that runs poll_recv keeps running; nothing is assumed of the
\* socket or the driver.
FairSpecPoll ==
    /\ SpecPoll
    /\ WF_vars(PollRecvReady)
    /\ WF_vars(TryIo)

\* =================================================================== claims
\* A step of the Encoder's push.
IsPushStep == pc = "encoding" /\ pc' \in {"encoding", "unwinding"}

\* The Encoder's scope has ended.
ScopeEnded == exitPath # "none"

\* The entries yielded so far, as (level, type, payload of n bytes).
YieldedEntry(i, n) ==
    [level |-> cmsg_level(mem, yielded[i]), ty |-> cmsg_type(mem, yielded[i]),
     value |-> ReadBytes(mem, cmsg_data(yielded[i]), n)]

\* C1: Round trip.  When pushes whose total cmsg_space fits in the buffer all
\* returned, the Encoder was committed and Iter has walked the header to the
\* end, Iter yielded exactly one entry per push, in push order, each with the
\* pushed level, type and payload bytes, and decode returns the pushed value.
C1_RoundTrip ==
    (/\ ScopeEnded
     /\ exitPath # "unwind"
     /\ ChainSpace(pushed) <= Cap
     /\ pc = "iterating"
     /\ lastNext = "None")
    => /\ Len(yielded) = Len(pushed)
       /\ \A i \in 1..Len(pushed) :
             YieldedEntry(i, pushed[i].T.size) =
                [level |-> pushed[i].level, ty |-> pushed[i].ty,
                 value |-> pushed[i].value]
       /\ \A i \in 1..Len(pushed) :
             (dec.outcome = "ok" /\ dec.cmsg = yielded[i] /\ dec.T = pushed[i].T)
                => dec.value = pushed[i].value

\* C2: Space accounting.  Once the Encoder is committed, the header's control
\* length is the sum of cmsg_space over the entries it encoded, and that sum
\* is at most the buffer length B declared when the Encoder was created.
C2_SpaceAccounting ==
    ScopeEnded =>
        /\ control_len(hdr) = ChainSpace(written)
        /\ ChainSpace(written) <= Cap

C2_Witness ==
    /\ ScopeEnded
    /\ Len(written) = 2
    /\ written[1].T # written[2].T

\* C3: Commit on every exit path.  However the Encoder's scope ended (finish,
\* drop, or unwinding out of a failed push), the header's control length is
\* the Encoder's running total at that point.
C3_CommitOnEveryExit ==
    exitPath \in {"finish", "drop", "unwind"} => hdr.msg_controllen = enc.len

C3_Witness ==
    /\ exitPath = "unwind"
    /\ enc.len > 0
    /\ enc.len < Cap

\* C4: Insufficient-space rejection.  A push whose cmsg_space exceeds the
\* declared control length minus the running total fails an assertion (the
\* space assertion, when the alignment assertion passes) and changes neither
\* the buffer nor the running total nor the cursor nor the header.
C4_InsufficientSpaceRejection ==
    [][(IsPushStep
        /\ cmsg_space(lastPush'.T.size) > hdr.msg_controllen - enc.len)
       => /\ pc' = "unwinding"
          /\ lastPush'.outcome \in {"space_panic", "align_panic"}
          /\ (lastPush'.T.align <= AlignOfCmsghdr
                => lastPush'.outcome = "space_panic")
          /\ mem' = mem
          /\ enc' = enc
          /\ hdr' = hdr
          /\ written' = written]_vars

C4_Witness ==
    /\ lastPush.outcome = "space_panic"
    /\ Len(written) >= 1
    /\ enc.cmsg # NULL

\* C5: Encoder bound.  Between Encoder::new and the commit the running total
\* is at most the declared control length, which is still the original B and
\* has not been committed to.
C5_EncoderBound ==
    pc \in {"encoding", "unwinding"} =>
        /\ enc.len <= hdr.msg_controllen
        /\ hdr.msg_controllen = Cap
        /\ hdr.msg_control = 0
        /\ commits = 0

C5_Witness ==
    /\ pc = "encoding"
    /\ Len(written) >= 1
    /\ enc.len = hdr.msg_controllen

\* The entry Iter::next returned last, and what the platform's next-entry
\* lookup returns for it.
LastYielded == yielded[Len(yielded)]
PlatformNext == CMSG_NXTHDR(hdr, mem, LastYielded)
NextIsTruncated ==
    /\ pc = "iterating"
    /\ lastNext = "Some"
    /\ PlatformNext # NULL
    /\ len(mem, PlatformNext) < SizeOfCmsghdr

\* C6 as stated: on every target, when the platform's next-entry lookup
\* returns an entry with a declared length below the header size,
\* cmsg_nxt_hdr reports null and Iter's cursor is empty.
C6_Original == NextIsTruncated => it.cmsg = NULL

\* C6, amended: on apple targets (both header types) such an entry makes
\* cmsg_nxt_hdr report null, so Iter's cursor is empty and the entry is not
\* yielded; on other targets cmsg_nxt_hdr returns the lookup's result as is.
C6_MalformedChainTermination ==
    NextIsTruncated =>
        /\ target = "apple" => it.cmsg = NULL
        /\ target # "apple" => it.cmsg = PlatformNext

C6_Witness ==
    /\ NextIsTruncated
    /\ target = "apple"
    /\ len(mem, PlatformNext) > 0
    /\ Len(yielded) = 2
    /\ it.cmsg = NULL

\* C7: Empty buffer.  An Encoder over a zero-length control buffer commits a
\* control length of zero, and nulls the control pointer for libc::msghdr but
\* not for msghdr_x; an Iter over a header with control length zero starts
\* with an empty cursor and yields nothing.
C7_EmptyBuffer ==
    /\ (ScopeEnded /\ Cap = 0) =>
          /\ hdr.msg_controllen = 0
          /\ hdr.msg_control = (IF hdrType = "msghdr" THEN NULL ELSE 0)
    /\ (pc = "iterating" /\ hdr.msg_controllen = 0) =>
          /\ it.cmsg = NULL
          /\ yielded = <<>>
          /\ lastNext \in {"none", "None"}

C7_Witness ==
    /\ ScopeEnded
    /\ Cap = 0
    /\ hdrType = "msghdr"
    /\ pc = "iterating"
    /\ lastNext = "None"

\* C8: Iterator termination.  The entries Iter yields lie at strictly
\* increasing offsets inside the control length, so there are at most as many
\* as the buffer has bytes; a step moves the cursor to cmsg_nxt_hdr of the
\* entry it yields; after None every later call returns None; and no step of
\* the iteration changes the header or the buffer.
C8_IterTermination ==
    /\ [](pc = "iterating" =>
            /\ Len(yielded) <= hdr.msg_controllen
            /\ \A i \in 1..Len(yielded) :
                  /\ yielded[i] >= 0
                  /\ yielded[i] + SizeOfCmsghdr <= hdr.msg_controllen
                  /\ i > 1 => yielded[i - 1] < yielded[i])
    /\ [][pc = "iterating" =>
            /\ hdr' = hdr
            /\ mem' = mem
            /\ (yielded' # yielded =>
                  it'.cmsg = cmsg_nxt_hdr(hdr, mem, yielded'[Len(yielded')]))
            /\ (lastNext = "None" =>
                  lastNext' = "None" /\ yielded' = yielded)]_vars

C8_Witness ==
    /\ pc = "iterating"
    /\ Len(yielded) = 2
    /\ noneCalls = 2

\* C9: Commit exactly once.  set_control_len has not been called while the
\* Encoder is live, has been called exactly once when its scope has ended,
\* and the header it leaves depends on the running total only, not on
\* whether the scope ended by finish or by drop.
C9_CommitExactlyOnce ==
    /\ pc \in {"encoding", "unwinding"} => commits = 0
    /\ ScopeEnded =>
          /\ commits = 1
          /\ hdr = [msg_controllen |-> enc.len,
                    msg_control |-> IF enc.len = 0 /\ hdrType = "msghdr"
                                    THEN NULL ELSE 0]

C9_Witness ==
    /\ exitPath = "finish"
    /\ commits = 1
    /\ Len(written) >= 1

\* C10: Alignment.  With the buffer aligned to 8, the payload of every entry
\* push wrote is aligned for the pushed type, whose alignment is at most the
\* entry header's; a push or decode of a type with stricter alignment fails
\* the alignment assertion, the push before anything is written.
C10_Alignment ==
    /\ [](/\ \A i \in 1..Len(written) :
                /\ written[i].T.align <= AlignOfCmsghdr
                /\ cmsg_data(written[i].cmsg) % written[i].T.align = 0
          /\ (lastPush.outcome # "none" /\ lastPush.T.align > AlignOfCmsghdr)
                => lastPush.outcome = "align_panic"
          /\ (dec.outcome # "none" /\ dec.T.align > AlignOfCmsghdr)
                => dec.outcome = "align_panic")
    /\ [][(IsPushStep /\ lastPush'.T.align > AlignOfCmsghdr)
            => mem' = mem /\ enc' = enc /\ written' = written]_vars

C10_Witness ==
    /\ Len(written) >= 1
    /\ written[1].T = in_pktinfo
    /\ lastPush.outcome = "align_panic"
    /\ lastPush.T = u64

\* C11 as stated: for every payload size n, cmsg_space(n) >= cmsg_len(n),
\* cmsg_len(n) is the header size plus n, and cmsg_space(n) is a multiple of
\* the platform alignment.
C11_Original ==
    calc.done =>
        /\ ~calc.len.panic
        /\ ~calc.space.panic
        /\ WLeq(calc.len.val, calc.space.val)
        /\ calc.len.val = WAddInt(calc.n, SizeOfCmsghdr)
        /\ calc.space.val.lo % AlignUnit = 0

\* The padded entry of a payload of n bytes fits a c_uint.
SizeInRange(n) == FitsCUint(WAddInt(WAlign(n, AlignUnit), SizeOfCmsghdr))

\* C11, amended: the same, for every payload size n whose padded entry
\* (header size plus n rounded up to the alignment) is below 2^32.
C11_SizeRelations ==
    (calc.done /\ SizeInRange(calc.n)) =>
        /\ ~calc.len.panic
        /\ ~calc.space.panic
        /\ WLeq(calc.len.val, calc.space.val)
        /\ calc.len.val = WAddInt(calc.n, SizeOfCmsghdr)
        /\ calc.space.val.lo % AlignUnit = 0

C11_Witness ==
    /\ calc.done
    /\ SizeInRange(calc.n)
    /\ calc.n.hi = Limb - 1
    /\ calc.space.val # calc.len.val

\* C12: The silent-drop branch is unreachable.  No push that passes both
\* assertions finds the cursor empty.
C12_SilentDropUnreachable == lastPush.outcome # "dropped"

\* C13: The defensive drop is a no-op.  A push that finds no entry slot
\* changes neither the buffer nor the header nor the running total, leaves
\* the cursor empty and writes no entry; the length committed later is the
\* total space of the entries that were written.
C13_DropIsNoOp ==
    /\ [][(IsPushStep /\ lastPush'.outcome = "dropped")
            => /\ mem' = mem
               /\ hdr' = hdr
               /\ enc'.len = enc.len
               /\ enc'.cmsg = NULL
               /\ written' = written]_vars
    /\ []((ScopeEnded /\ Len(pushed) > Len(written))
            => hdr.msg_controllen = ChainSpace(written))

C13_Witness ==
    /\ ScopeEnded
    /\ Len(written) >= 1
    /\ Len(pushed) > Len(written)

\* The index of the written entry at offset c, or 0.
WrittenAt(c) ==
    IF \E i \in 1..Len(written) : written[i].cmsg = c
    THEN CHOOSE i \in 1..Len(written) : written[i].cmsg = c
    ELSE 0

\* C14: A successful push leaves the entry's header (level, type, declared
\* length cmsg_len(size_of(value))) and payload in the buffer and nothing
\* else changed, advances the running total by exactly cmsg_space, and moves
\* the cursor to cmsg_nxt_hdr of the entry as written.  An entry written by a
\* push of T passes decode's length check for every type of T's size, and
\* fails it in builds with debug assertions for a type of another size.
C14_PushSteps ==
    /\ [][(IsPushStep /\ lastPush'.outcome = "ok")
            => LET c == enc.cmsg
                   p == lastPush'
               IN  /\ c # NULL
                   /\ len(mem', c) = cmsg_len(p.T.size)
                   /\ cmsg_level(mem', c) = p.level
                   /\ cmsg_type(mem', c) = p.ty
                   /\ ReadBytes(mem', cmsg_data(c), p.T.size) = p.value
                   /\ \A i \in DOMAIN mem :
                         (i < c \/ i >= cmsg_data(c) + p.T.size) => mem'[i] = mem[i]
                   /\ enc'.len = enc.len + cmsg_space(p.T.size)
                   /\ enc'.cmsg = cmsg_nxt_hdr(hdr, mem', c)
                   /\ hdr' = hdr]_vars
    /\ []((ScopeEnded /\ dec.outcome # "none" /\ WrittenAt(dec.cmsg) # 0
           /\ dec.T.align <= AlignOfCmsghdr)
            => LET w == written[WrittenAt(dec.cmsg)]
               IN  /\ dec.T.size = w.T.size => dec.outcome = "ok"
                   /\ dec.T = w.T => dec.value = w.value
                   /\ (dec.T.size # w.T.size /\ dec.debug)
                         => dec.outcome = "len_panic")

C14_Witness ==
    /\ ScopeEnded
    /\ Len(written) = 2
    /\ dec.cmsg = written[2].cmsg
    /\ dec.outcome = "len_panic"
    /\ enc.cmsg # NULL

\* C15 as stated: on every target and header type, every entry Iter yields,
\* the first included, declares a length of at least the header size.
C15_Original ==
    pc = "iterating" =>
        \A i \in 1..Len(yielded) : len(mem, yielded[i]) >= SizeOfCmsghdr

\* C15, amended: on apple targets (both header types) every entry Iter
\* reaches through cmsg_nxt_hdr declares a length of at least the header
\* size; the first entry is the one cmsg_first_hdr returns, whatever length
\* it declares.
C15_NoTruncatedAfterFirst ==
    pc = "iterating" =>
        /\ target = "apple" =>
              \A i \in 2..Len(yielded) : len(mem, yielded[i]) >= SizeOfCmsghdr
        /\ Len(yielded) >= 1 => yielded[1] = cmsg_first_hdr(hdr)

C15_Witness ==
    /\ pc = "iterating"
    /\ target = "apple"
    /\ lastNext = "None"
    /\ Len(yielded) = 2
    /\ len(mem, yielded[2]) >= SizeOfCmsghdr
    /\ CMSG_NXTHDR(hdr, mem, yielded[2]) # NULL

\* The step that commits the Encoder's length through set_control_len.
IsCommitStep == pc \in {"encoding", "unwinding"} /\ pc' = "committed"

\* C16: set_control_len(n) sets the header's control length to exactly n and
\* changes no byte of the buffer; the control pointer changes only for
\* n = 0 on libc::msghdr, where it becomes null, never on msghdr_x; an
\* Encoder that commits at least one entry leaves the pointer as it was.
C16_SetControlLenFrame ==
    /\ [][IsCommitStep
            => /\ hdr'.msg_controllen = enc.len
               /\ mem' = mem
               /\ enc.len > 0 => hdr'.msg_control = hdr.msg_control
               /\ hdrType = "msghdr_x" => hdr'.msg_control = hdr.msg_control
               /\ hdr'.msg_control # hdr.msg_control
                     => (enc.len = 0 /\ hdrType = "msghdr"
                         /\ hdr'.msg_control = NULL)]_vars
    /\ []((ScopeEnded /\ Len(written) >= 1) => hdr.msg_control = 0)

C16_Witness ==
    /\ ScopeEnded
    /\ hdrType = "msghdr"
    /\ exitPath = "drop"
    /\ Len(written) >= 1
    /\ hdr.msg_controllen > 0
    /\ hdr.msg_control = 0

\* The entries a walk of header type ty visits from entry c on, at most
\* fuel of them.
RECURSIVE HdrWalk(_, _, _)
HdrWalk(ty, c, fuel) ==
    IF c = NULL \/ fuel = 0 THEN <<>>
    ELSE <<c>> \o HdrWalk(ty,
                          IF ty = "msghdr_x" THEN msghdr_x_cmsg_nxt_hdr(hdr, mem, c)
                          ELSE msghdr_cmsg_nxt_hdr(hdr, mem, c),
                          fuel - 1)

\* The whole walk of header type ty over the current header and buffer.
EntriesOf(ty) ==
    HdrWalk(ty,
            IF ty = "msghdr_x" THEN msghdr_x_cmsg_first_hdr(hdr)
            ELSE msghdr_cmsg_first_hdr(hdr),
            Cap + 1)

\* C17: Header-layout equivalence.  On a target that has both header types,
\* over the same control pointer, length and contents both return the same
\* first entry and, for every entry of the chain, the same next entry (null
\* for a next entry with a too-small declared length), so the entry sequences
\* are the same; what Iter yields is a prefix of that sequence.
C17_HeaderEquivalence ==
    (target = "apple" /\ pc \in {"committed", "received", "iterating"}) =>
        /\ msghdr_cmsg_first_hdr(hdr) = msghdr_x_cmsg_first_hdr(hdr)
        /\ \A i \in 1..Len(EntriesOf("msghdr")) :
              LET c == EntriesOf("msghdr")[i]
              IN  msghdr_cmsg_nxt_hdr(hdr, mem, c) = msghdr_x_cmsg_nxt_hdr(hdr, mem, c)
        /\ EntriesOf("msghdr") = EntriesOf("msghdr_x")
        /\ pc = "iterating" =>
              /\ Len(yielded) <= Len(EntriesOf(hdrType))
              /\ yielded = SubSeq(EntriesOf(hdrType), 1, Len(yielded))

C17_Witness ==
    /\ target = "apple"
    /\ hdrType = "msghdr_x"
    /\ pc = "iterating"
    /\ lastNext = "None"
    /\ Len(yielded) = 1
    /\ CMSG_NXTHDR(hdr, mem, yielded[1]) # NULL
    /\ len(mem, CMSG_NXTHDR(hdr, mem, yielded[1])) < SizeOfCmsghdr

\* A step in which inner.recv is called.
IsRecvAttempt == poll'.attempts # poll.attempts

\* C18: In poll_recv every call of inner.recv comes right after a readiness
\* poll of the same loop round that returned Ready(Ok), never after one that
\* returned Pending or an error, which end the call; and by the time the loop
\* starts a new round or the call has returned, every confirmed readiness was
\* followed by exactly one call of inner.recv.
C18_RecvAfterConfirmation ==
    /\ [][IsRecvAttempt
            => /\ poll.pc = "try_io"
               /\ poll.lastReady = "Ready"
               /\ poll.confirms = (poll.attempts + 1) % CountMod
               /\ poll'.confirms = poll.confirms
               /\ poll'.attempts = (poll.attempts + 1) % CountMod]_vars
    /\ [](poll.pc \in {"confirm", "returned"} => poll.attempts = poll.confirms)
    /\ [](poll.pc = "try_io"
            => /\ poll.lastReady = "Ready"
               /\ poll.confirms = (poll.attempts + 1) % CountMod)
    /\ [](poll.lastReady \in {"Pending", "Err"} => poll.pc = "returned")

C18_Witness ==
    /\ poll.pc = "returned"
    /\ poll.ret.kind = "ReadyOk"
    /\ poll.lastReady = "Ready"
    /\ poll.confirms = 3
    /\ poll.attempts = 3

\* C19: poll_recv's outcomes.  A successful recv is returned as
\* Ready(Ok(n)) with recv's count; a NotConnected error is returned as
\* Ready(Err) at once; any other error, WouldBlock included, is not returned
\* but leads to a new readiness poll; a readiness poll that fails is returned
\* as Ready(Err), and one that is Pending as Pending.
C19_OutcomeMapping ==
    /\ [][(poll.pc = "try_io" /\ poll'.pc # "try_io")
            => LET r == poll'.lastIo
               IN  /\ r.kind = "Ok"
                        => (poll'.pc = "returned"
                            /\ poll'.ret = [kind |-> "ReadyOk", n |-> r.n,
                                            err |-> "none"])
                   /\ r.kind = "NotConnected"
                        => (poll'.pc = "returned"
                            /\ poll'.ret = [kind |-> "ReadyErr", n |-> 0,
                                            err |-> "NotConnected"])
                   /\ r.kind \notin {"Ok", "NotConnected"}
                        => (poll'.pc = "confirm" /\ poll'.ret = NoRet)]_vars
    /\ [](poll.pc = "returned"
            => /\ poll.lastReady = "Pending" <=> poll.ret.kind = "Pending"
               /\ poll.lastReady = "Err"
                     <=> (poll.ret.kind = "ReadyErr" /\ poll.ret.err = "driver")
               /\ poll.ret.kind = "ReadyErr"
                     => poll.ret.err \in {"NotConnected", "driver"}
               /\ poll.ret.kind = "ReadyOk"
                     => (poll.lastIo.kind = "Ok" /\ poll.ret.n = poll.lastIo.n))

C19_Witness ==
    /\ poll.pc = "returned"
    /\ poll.ret.kind = "ReadyErr"
    /\ poll.ret.err = "NotConnected"
    /\ poll.attempts = 2

\* C20: Every call of poll_recv returns, whatever the socket does.
C20_PollRecvReturns ==
    (poll.pc \in {"confirm", "try_io"}) ~> (poll.pc = "returned")
====
